---- MODULE Spec2Model ----
(***************************************************************************)
(* zipgo: packages a directory tree into an in-memory zip archive, encodes *)
(* the archive as a base64 Go raw-string constant, and emits a Go source   *)
(* file holding the constant and (unless -d) an Unzip routine.             *)
(*                                                                         *)
(* The module has two specifications:                                      *)
(*   SpecEnc  - encode() and the decoder used by the emitted Unzip, on     *)
(*              bounded byte sequences;                                    *)
(*   Spec     - main(): addFiles/addDir/addFile, the writes to the output  *)
(*              file, followed by runs of the emitted Unzip/extractFile.   *)
(***************************************************************************)
EXTENDS Integers, Sequences, FiniteSets, TLC

VARIABLES
    \* ---- encoder specification
    epc,        \* "in" | "encoded" | "decoded" | "off"
    encIn,      \* the byte slice handed to encode
    lit,        \* the literal encode returned (with both backquotes)
    decOut,     \* result of base64.StdEncoding.DecodeString on the constant
    \* ---- main()
    pc,         \* position of main
    path,       \* the <path> argument, as path components
    srcfs,      \* the file system under path: full path -> node
    data,       \* -d flag
    pkg,        \* -p value
    stack,      \* pending addDir/addFile calls, in call order
    visited,    \* paths on which addDir/addFile has acted, in order
    entries,    \* entries created in the zip.Writer, in order
    buf,        \* bytes of the closed archive (buf.Bytes())
    out,        \* the output file
    size,       \* main's size counter
    printed,    \* what main printed last
    exitCode,   \* process exit status, -1 while running
    failed,     \* the first system call that failed in main, or NoErr
    \* ---- the emitted Unzip
    upc,        \* "idle" | "loop" | "ok" | "err"
    variant,    \* "suffix" (main.go) or "epilog" (with the replace flag)
    replace,    \* the replace argument (epilog variant)
    tfs,        \* the target file system: path -> node
    tfs0,       \* the target file system when the current Unzip call began
    ui,         \* index of the next entry of r.File
    written,    \* indexes whose destination this Unzip call created and filled
    xerr,       \* what the last extractFile call of this Unzip call returned
    results     \* what the Unzip calls made so far returned ("nil" or an error)

encVars  == <<epc, encIn, lit, decOut>>
mainVars == <<pc, path, srcfs, data, pkg, stack, visited, entries, buf, out,
              size, printed, exitCode, failed>>
unzVars  == <<upc, variant, replace, tfs, tfs0, ui, written, xerr, results>>
vars     == <<encVars, mainVars, unzVars>>

(***************************************************************************)
(* Bounds                                                                  *)
(***************************************************************************)
MaxDataLen == 90      \* longest byte slice given to encode in SpecEnc
MaxDepth   == 2       \* deepest nesting of subdirectories in the tree
MaxRuns    == 2       \* Unzip calls made on one target
MaxZipLen  == 45      \* size of the largest archive image w.Close leaves in buf

(***************************************************************************)
(* base64.StdEncoding                                                      *)
(***************************************************************************)
Alphabet ==
    << "A","B","C","D","E","F","G","H","I","J","K","L","M","N","O","P",
       "Q","R","S","T","U","V","W","X","Y","Z","a","b","c","d","e","f",
       "g","h","i","j","k","l","m","n","o","p","q","r","s","t","u","v",
       "w","x","y","z","0","1","2","3","4","5","6","7","8","9","+","/" >>

PadChar == "="

\* the character of a 6-bit value
B64Char(v) == Alphabet[v + 1]

\* the k-th character of the encoding of src: character (k-1)%4 of the
\* quantum that holds bytes 3g+1..3g+3, padded where src has no byte
EncodedChar(src, k) ==
    LET g    == (k - 1) \div 4
        j    == (k - 1) % 4
        have == Len(src) - 3 * g
        b1   == src[3 * g + 1]
        b2   == IF have >= 2 THEN src[3 * g + 2] ELSE 0
        b3   == IF have >= 3 THEN src[3 * g + 3] ELSE 0
        val  == b1 * 65536 + b2 * 256 + b3
    IN  IF j = 0 THEN B64Char(val \div 262144)
        ELSE IF j = 1 THEN B64Char((val \div 4096) % 64)
        ELSE IF j = 2 THEN (IF have >= 2 THEN B64Char((val \div 64) % 64) ELSE PadChar)
        ELSE (IF have >= 3 THEN B64Char(val % 64) ELSE PadChar)

\* base64.StdEncoding.EncodeToString
EncodeToString(src) ==
    [k \in 1..(4 * ((Len(src) + 2) \div 3)) |-> EncodedChar(src, k)]

\* decodeMap: the 6-bit value of a character, -1 for a character outside
\* the alphabet
DecodeMap(c) ==
    IF \E i \in 1..64 : Alphabet[i] = c
    THEN (CHOOSE i \in 1..64 : Alphabet[i] = c) - 1
    ELSE -1

IsNewline(c) == c = "\n" \/ c = "\r"

\* one quantum of four characters; last tells whether padding may appear
DecodeQuantum(q, last) ==
    LET d1 == DecodeMap(q[1])
        d2 == DecodeMap(q[2])
        d3 == DecodeMap(q[3])
        d4 == DecodeMap(q[4])
    IN  IF d1 < 0 \/ d2 < 0 THEN [ok |-> FALSE, bytes |-> <<>>]
        ELSE IF last /\ q[3] = PadChar /\ q[4] = PadChar THEN
            [ok |-> TRUE, bytes |-> << (d1 * 4 + d2 \div 16) % 256 >>]
        ELSE IF d3 < 0 THEN [ok |-> FALSE, bytes |-> <<>>]
        ELSE IF last /\ q[4] = PadChar THEN
            [ok |-> TRUE,
             bytes |-> << (d1 * 4 + d2 \div 16) % 256,
                          ((d2 % 16) * 16 + d3 \div 4) % 256 >>]
        ELSE IF d4 < 0 THEN [ok |-> FALSE, bytes |-> <<>>]
        ELSE [ok |-> TRUE,
              bytes |-> << (d1 * 4 + d2 \div 16) % 256,
                           ((d2 % 16) * 16 + d3 \div 4) % 256,
                           ((d3 % 4) * 64 + d4) % 256 >>]

\* the quanta of s (newlines removed), only the last of which may be padded
DecodeQuanta(s) ==
    LET nq   == Len(s) \div 4
        Q(g) == DecodeQuantum(SubSeq(s, 4 * g - 3, 4 * g), g = nq)
    IN  IF Len(s) % 4 # 0 \/ \E g \in 1..nq : ~Q(g).ok
        THEN [ok |-> FALSE, bytes |-> <<>>]
        ELSE IF nq = 0 THEN [ok |-> TRUE, bytes |-> <<>>]
        ELSE [ok |-> TRUE,
              bytes |-> [k \in 1..(3 * (nq - 1) + Len(Q(nq).bytes)) |->
                            Q(((k - 1) \div 3) + 1).bytes[((k - 1) % 3) + 1]]]

\* base64.StdEncoding.DecodeString: \r and \n are skipped wherever they occur
DecodeString(s) ==
    DecodeQuanta(SelectSeq(s, LAMBDA c : ~IsNewline(c)))

(***************************************************************************)
(* encode (main.go)                                                        *)
(***************************************************************************)
LineWidth == 60

\* the backquote character that delimits a Go raw string (one character)
BackQuote == "BQ"

\* encodeStep with the line break written in place of the character
encodeStep_overwrite(b, ch) ==
    Append(b, IF Len(b) % LineWidth = 0 THEN "\n" ELSE ch)

\* the body of the loop of encode: the builder b after character ch
encodeStep(b, ch) ==
    Append(IF Len(b) % LineWidth = 0 THEN Append(b, "\n") ELSE b, ch)

\* for _, ch := range text { ... }: the loop body applied to the characters
\* of text in order, starting from builder b (the builder after the first
\* half of text is the builder the second half starts from)
RECURSIVE encodeLoop(_, _)
encodeLoop(b, text) ==
    IF text = <<>> THEN b
    ELSE IF Len(text) = 1 THEN encodeStep(b, text[1])
    ELSE LET h == Len(text) \div 2
         IN  CHOOSE r \in { encodeLoop(mid, SubSeq(text, h + 1, Len(text))) :
                              mid \in {encodeLoop(b, SubSeq(text, 1, h))} } : TRUE

\* encode without the opening backquote in the builder
encode_countText(bytes) ==
    << BackQuote >> \o Append(encodeLoop(<<>>, EncodeToString(bytes)), BackQuote)

encode(bytes) ==
    Append(encodeLoop(<< BackQuote >>, EncodeToString(bytes)), BackQuote)

\* the value of the Go raw-string constant zipdata whose source text is l:
\* the characters between the backquotes, carriage returns discarded
RawString(l) ==
    SelectSeq(SubSeq(l, 2, Len(l) - 1), LAMBDA c : c # "\r")

(***************************************************************************)
(* Byte slices given to encode in SpecEnc                                  *)
(***************************************************************************)
\* constant runs (all-zero, all-0xFF, ...) and ramps, of every length up to
\* MaxDataLen
Starts  == {0, 255, 104}
Strides == {0, 37, 171}

Ramp(a, d, n) == [i \in 1..n |-> (a + i * d) % 256]

EncInputs == {Ramp(a, d, n) : a \in Starts, d \in Strides, n \in 0..MaxDataLen}


(***************************************************************************)
(* Paths: a path is the sequence of its components; "/" as first component *)
(* marks an absolute path, <<".">> is the current directory and <<>> the   *)
(* empty string.                                                           *)
(***************************************************************************)
\* filepath.Clean on the paths that occur here (no ".." components)
Clean(p) ==
    LET idx  == {i \in 1..Len(p) : p[i] # "." /\ (p[i] # "/" \/ i = 1)}
        kept == [k \in 1..Cardinality(idx) |->
                    p[CHOOSE i \in idx : Cardinality({j \in idx : j < i}) = k - 1]]
    IN  IF kept = <<>> THEN << "." >> ELSE kept

\* filepath.Join: empty elements are ignored, the result is cleaned
Join(a, b) == IF a \o b = <<>> THEN <<>> ELSE Clean(a \o b)

\* filepath.Dir
Dir(p) == IF Len(p) <= 1 THEN (IF p = << "/" >> THEN p ELSE << "." >>)
          ELSE SubSeq(p, 1, Len(p) - 1)

\* filepath.Base
Base(p) == IF p = <<>> THEN "." ELSE p[Len(p)]

(***************************************************************************)
(* File-system nodes and the directory trees given to the program          *)
(***************************************************************************)
DirNode     == [kind |-> "dir", content |-> <<>>]
FileNode(c) == [kind |-> "file", content |-> c]

FileName == "a.txt"
SubName  == "sub"

\* the content of the file a.txt in the directory n levels below the root:
\* "hi" at even levels, "x" at odd levels
ContentAt(n) == IF n % 2 = 0 THEN <<104, 105>> ELSE <<120>>

\* the directory nested n levels below the root of the tree
SubDir(n) == [i \in 1..n |-> SubName]

\* a tree, keyed by the path relative to its root: a chain of k nested
\* subdirectories, the directories of the levels in F holding the file a.txt
TreeOf(k, F) ==
    LET dirs  == {SubDir(n) : n \in 0..k}
        files == {Append(SubDir(n), FileName) : n \in F}
    IN  [r \in dirs \cup files |->
            IF r \in dirs THEN DirNode ELSE FileNode(ContentAt(Len(r) - 1))]

\* directory trees, and the tree that is a single plain file
Trees ==
    UNION { {TreeOf(k, F) : F \in SUBSET (0..k)} : k \in 0..MaxDepth }
    \cup { [r \in {<<>>} |-> FileNode(ContentAt(0))] }

\* the <path> argument: current directory, relative, nested, absolute
Roots == { << "." >>, << "t" >>, << "x", "t" >>, << "/", "t" >> }

\* the file system as the program sees it: tree t placed at root
PlaceAt(root, t) ==
    [p \in {Join(root, r) : r \in DOMAIN t} |->
        t[CHOOSE r \in DOMAIN t : Join(root, r) = p]]

\* the path relative to root of a path p at or below root
Rel(root, p) ==
    CHOOSE r \in {SubSeq(p, k, Len(p)) : k \in 1..(Len(p) + 1)} : Join(root, r) = p

\* dir.Readdir(-1): the names in directory p
ReaddirNames(fs, p) ==
    {Base(q) : q \in {x \in DOMAIN fs : x # p /\ Join(p, << Base(x) >>) = x}}

\* all orders in which a set of names can be listed
Orders(S) ==
    {o \in [1..Cardinality(S) -> S] : \A i, j \in DOMAIN o : i # j => o[i] # o[j]}


(***************************************************************************)
(* main: constants                                                         *)
(***************************************************************************)
\* len(shortPrefixString), len(prefixString), len(suffixString); the two
\* headers hold one %s verb each
ShortPrefixLen == 29
PrefixLen      == 113
SuffixLen      == 1151
VerbLen        == 2

Pkgs == { "main", "p" }

NoErr == [op |-> "none", path |-> <<>>]
SysErr(o, p) == [op |-> o, path |-> p]

\* the output file: len bytes written, segs the strings written whole
NoOutput == [created |-> FALSE, open |-> FALSE, len |-> 0, segs |-> <<>>,
             closeCalls |-> 0]

\* the archive images w.Close may leave in buf: archive/zip decides the bytes;
\* an archive without entries is the 22-byte end-of-central-directory record
EmptyZipLen == 22
ZipImages == { Ramp(80, 75, n) : n \in {EmptyZipLen, MaxZipLen - 3, MaxZipLen} }

Frame(fn, p, prefix) == [fn |-> fn, path |-> p, prefix |-> prefix]

\* fmt.Println(err); os.Exit(1): deferred calls do not run
Exit1(e) ==
    /\ pc' = "exit"
    /\ printed' = e
    /\ exitCode' = 1

(***************************************************************************)
(* addFiles, addDir, addFile                                               *)
(***************************************************************************)
\* addFiles(w, path, ""): os.Stat, then the call of addDir or addFile
addFiles ==
    /\ pc = "start"
    /\ \/ /\ path \in DOMAIN srcfs
          /\ stack' = << Frame(IF srcfs[path].kind = "dir" THEN "addDir" ELSE "addFile",
                               path, <<>>) >>
          /\ pc' = "walk"
          /\ UNCHANGED <<printed, exitCode, failed>>
       \/ /\ failed' = SysErr("stat", path)
          /\ Exit1(SysErr("stat", path))
          /\ UNCHANGED stack
    /\ UNCHANGED <<path, srcfs, data, pkg, visited, entries, buf, out, size>>
    /\ UNCHANGED <<encVars, unzVars>>

\* the calls addDir makes for the listing files, in listing order
ChildCalls(fr, files) ==
    [i \in 1..Len(files) |->
        LET child == Join(fr.path, << files[i] >>)
        IN  IF srcfs[child].kind = "dir"
            THEN Frame("addDir", child, Join(fr.prefix, << files[i] >>))
            ELSE Frame("addFile", child, fr.prefix)]

\* Propagate with the error dropped and the walk continued
Propagate_swallow(e) ==
    /\ failed' = e
    /\ stack' = Tail(stack)
    /\ UNCHANGED <<pc, printed, exitCode>>

\* the error of a call returns through every enclosing addDir to main
Propagate(e) ==
    /\ failed' = e
    /\ stack' = <<>>
    /\ Exit1(e)

\* addDir(w, path, prefix): os.Open, dir.Readdir(-1), then one call per name
addDir ==
    /\ pc = "walk"
    /\ stack # <<>>
    /\ Head(stack).fn = "addDir"
    /\ LET fr == Head(stack)
       IN  /\ visited' = Append(visited, fr.path)
           /\ \/ /\ \E files \in Orders(ReaddirNames(srcfs, fr.path)) :
                       stack' = ChildCalls(fr, files) \o Tail(stack)
                 /\ UNCHANGED <<pc, printed, exitCode, failed>>
              \/ \E o \in {"open", "readdir"} : Propagate(SysErr(o, fr.path))
    /\ UNCHANGED <<path, srcfs, data, pkg, entries, buf, out, size>>
    /\ UNCHANGED <<encVars, unzVars>>

\* EntryName with the base name of the file
EntryName_base(fr) == << Base(fr.path) >>

\* the name addFile gives the entry it creates: w.Create(path)
EntryName(fr) == fr.path

NewEntry(n, c) == [name |-> n, content |-> c, isDir |-> FALSE]

\* addFile(w, path, prefix): os.Open, w.Create, os.ReadFile, zf.Write
addFile ==
    /\ pc = "walk"
    /\ stack # <<>>
    /\ Head(stack).fn = "addFile"
    /\ LET fr == Head(stack)
       IN  /\ visited' = Append(visited, fr.path)
           /\ \/ /\ entries' = Append(entries, NewEntry(EntryName(fr), srcfs[fr.path].content))
                 /\ stack' = Tail(stack)
                 /\ UNCHANGED <<pc, printed, exitCode, failed>>
              \/ /\ UNCHANGED entries
                 /\ Propagate(SysErr("open", fr.path))
              \/ \* the entry's header exists when os.ReadFile fails
                 /\ entries' = Append(entries, NewEntry(EntryName(fr), <<>>))
                 /\ Propagate(SysErr("read", fr.path))
    /\ UNCHANGED <<path, srcfs, data, pkg, buf, out, size>>
    /\ UNCHANGED <<encVars, unzVars>>


(***************************************************************************)
(* main after addFiles: w.Close, os.Create and the writes                  *)
(***************************************************************************)
Output == << "unzip.go" >>

\* fmt.Sprintf(header, pkg): the header with its %s replaced by the package
HeaderLen(d, p) ==
    (IF d THEN ShortPrefixLen ELSE PrefixLen) - VerbLen + Len(p)

\* WriteString with the count of a successful write dropped
WriteString_dropCount(seg, n, next) ==
    \/ /\ out' = [out EXCEPT !.len = @ + n, !.segs = Append(@, seg)]
       /\ pc' = next
       /\ UNCHANGED <<size, printed, exitCode, failed>>
    \/ /\ \E k \in {0, n - 1} : out' = [out EXCEPT !.len = @ + k]
       /\ failed' = SysErr("write", Output)
       /\ Exit1(SysErr("write", Output))
       /\ UNCHANGED size

\* if n, err := f.WriteString(s); err != nil { Println; Exit(1) } else { size += n }
\* for a string of n bytes; a failing write may have written part of it
WriteString(seg, n, next) ==
    \/ /\ out' = [out EXCEPT !.len = @ + n, !.segs = Append(@, seg)]
       /\ size' = size + n
       /\ pc' = next
       /\ UNCHANGED <<printed, exitCode, failed>>
    \/ /\ \E k \in {0, n - 1} : out' = [out EXCEPT !.len = @ + k]
       /\ failed' = SysErr("write", Output)
       /\ Exit1(SysErr("write", Output))
       /\ UNCHANGED size

\* addFiles returned nil: w.Close()
main_Close ==
    /\ pc = "walk"
    /\ stack = <<>>
    /\ \/ /\ \E img \in ZipImages :
                /\ (entries = <<>>) = (Len(img) = EmptyZipLen)
                /\ buf' = img
          /\ pc' = "create"
          /\ UNCHANGED <<printed, exitCode, failed>>
       \/ /\ failed' = SysErr("zipclose", <<>>)
          /\ Exit1(SysErr("zipclose", <<>>))
          /\ UNCHANGED buf
    /\ UNCHANGED <<path, srcfs, data, pkg, stack, visited, entries, out, size>>
    /\ UNCHANGED <<encVars, unzVars>>

\* f, err := os.Create(output); defer f.Close()
main_Create ==
    /\ pc = "create"
    /\ \/ /\ out' = [NoOutput EXCEPT !.created = TRUE, !.open = TRUE]
          /\ pc' = "header"
          /\ UNCHANGED <<printed, exitCode, failed>>
       \/ /\ failed' = SysErr("create", Output)
          /\ Exit1(SysErr("create", Output))
          /\ UNCHANGED out
    /\ UNCHANGED <<path, srcfs, data, pkg, stack, visited, entries, buf, size>>
    /\ UNCHANGED <<encVars, unzVars>>

main_WriteHeader ==
    /\ pc = "header"
    /\ WriteString(IF data THEN "shortPrefix" ELSE "prefix", HeaderLen(data, pkg), "literal")
    /\ UNCHANGED <<path, srcfs, data, pkg, stack, visited, entries, buf>>
    /\ UNCHANGED <<encVars, unzVars>>

\* f.WriteString(encode(buf.Bytes()))
main_WriteLiteral ==
    /\ pc = "literal"
    /\ lit' = encode(buf)
    /\ WriteString("literal", Len(encode(buf)), "term")
    /\ UNCHANGED <<path, srcfs, data, pkg, stack, visited, entries, buf>>
    /\ UNCHANGED <<epc, encIn, decOut, unzVars>>

\* f.WriteString("\n\n")
main_WriteTerminator ==
    /\ pc = "term"
    /\ WriteString("terminator", 2, "footer")
    /\ UNCHANGED <<path, srcfs, data, pkg, stack, visited, entries, buf>>
    /\ UNCHANGED <<encVars, unzVars>>

\* if !data { f.WriteString(suffixString) }
main_WriteFooter ==
    /\ pc = "footer"
    /\ IF ~data
       THEN WriteString("footer", SuffixLen, "fclose")
       ELSE /\ pc' = "fclose"
            /\ UNCHANGED <<out, size, printed, exitCode, failed>>
    /\ UNCHANGED <<path, srcfs, data, pkg, stack, visited, entries, buf>>
    /\ UNCHANGED <<encVars, unzVars>>

\* f.Close(); fmt.Println("Wrote zip data to", ...); return, which runs the
\* deferred f.Close() on the closed file
main_Finish ==
    /\ pc = "fclose"
    /\ \/ /\ out' = [out EXCEPT !.open = FALSE, !.closeCalls = @ + 2]
          /\ printed' = [op |-> "wrote", path |-> Output, size |-> size]
          /\ exitCode' = 0
          /\ pc' = "done"
          /\ UNCHANGED failed
       \/ /\ out' = [out EXCEPT !.open = FALSE, !.closeCalls = @ + 1]
          /\ failed' = SysErr("close", Output)
          /\ Exit1(SysErr("close", Output))
    /\ UNCHANGED <<path, srcfs, data, pkg, stack, visited, entries, buf, size>>
    /\ UNCHANGED <<encVars, unzVars>>


(***************************************************************************)
(* The emitted Unzip and extractFile, run on a target directory            *)
(***************************************************************************)
Target == << "D" >>

\* content of a file that is in the target before the first Unzip call
OldContent == << 111 >>

EmptyFS == [q \in {} |-> DirNode]

\* fs with node n at each path of S that fs lacks
Extend(fs, S, n) ==
    [q \in DOMAIN fs \cup S |-> IF q \in DOMAIN fs THEN fs[q] ELSE n]

\* fs with the file at p holding content c
PutFile(fs, p, c) ==
    [q \in DOMAIN fs \cup {p} |-> IF q = p THEN FileNode(c) ELSE fs[q]]

Prefixes(p, n) == {SubSeq(p, 1, k) : k \in 1..n}

\* os.MkdirAll(p, 0755): every outcome, as [fs, err]. Nothing is made when p
\* is a directory already or a component of p is a file; otherwise each
\* mkdir may fail, leaving the directories made before it
MkdirAll(fs, p) ==
    IF p \in DOMAIN fs /\ fs[p].kind = "dir" THEN {[fs |-> fs, err |-> "nil"]}
    ELSE IF \E q \in Prefixes(p, Len(p)) : q \in DOMAIN fs /\ fs[q].kind = "file"
    THEN {[fs |-> fs, err |-> "ENOTDIR"]}
    ELSE {[fs |-> Extend(fs, Prefixes(p, Len(p)), DirNode), err |-> "nil"]}
         \cup {[fs |-> Extend(fs, Prefixes(p, k - 1), DirNode), err |-> "mkdir"] :
                 k \in {j \in 1..Len(p) : SubSeq(p, 1, j) \notin DOMAIN fs}}

\* os.Create(p) followed by io.Copy(f, rc) of content c: every outcome, as
\* [fs, err, wrote]. os.Create truncates; a failing copy leaves a proper prefix
CreateAndCopy(fs, p, c) ==
    IF p \in DOMAIN fs /\ fs[p].kind = "dir"
    THEN {[fs |-> fs, err |-> "EISDIR", wrote |-> FALSE]}
    ELSE {[fs |-> fs, err |-> "create", wrote |-> FALSE]}
         \cup {[fs |-> PutFile(fs, p, SubSeq(c, 1, k)), err |-> "copy", wrote |-> FALSE] :
                 k \in 0..(Len(c) - 1)}
         \cup {[fs |-> PutFile(fs, p, c), err |-> "nil", wrote |-> TRUE]}

\* where extractFile puts entry f: filepath.Join(path, f.Name)
Dest(f) == Join(Target, f.name)

\* extractFile(f, path) of suffixString (main.go): every outcome.
\* f.Open() reads the archive held in memory and is taken to succeed
extractFile(fs, f) ==
    IF f.isDir
    THEN {[fs |-> m.fs, err |-> m.err, wrote |-> FALSE] : m \in MkdirAll(fs, Dest(f))}
    ELSE UNION { IF m.err # "nil"
                 THEN {[fs |-> m.fs, err |-> m.err, wrote |-> FALSE]}
                 ELSE CreateAndCopy(m.fs, Dest(f), f.content)
               : m \in MkdirAll(fs, Dir(Dest(f))) }

\* extractFileReplace without the test of replace
extractFileReplace_always(fs, f, repl) == extractFile(fs, f)

\* extractFile(f, path, replace) of epilogString: every outcome
extractFileReplace(fs, f, repl) ==
    IF f.isDir
    THEN {[fs |-> m.fs, err |-> m.err, wrote |-> FALSE] : m \in MkdirAll(fs, Dest(f))}
    ELSE UNION { IF m.err # "nil"
                 THEN {[fs |-> m.fs, err |-> m.err, wrote |-> FALSE]}
                 ELSE IF ~repl /\ Dest(f) \in DOMAIN m.fs
                 THEN {[fs |-> m.fs, err |-> "nil", wrote |-> FALSE]}
                 ELSE CreateAndCopy(m.fs, Dest(f), f.content)
               : m \in MkdirAll(fs, Dir(Dest(f))) }

\* the target directory before the first Unzip call: absent, or holding one
\* entry's destination already, as a file with other content or as a directory
PreTargets ==
    {EmptyFS}
    \cup { Extend(Extend(EmptyFS, {Dest(entries[i])}, n),
                  Prefixes(Dest(entries[i]), Len(Dest(entries[i])) - 1), DirNode) :
             i \in 1..Len(entries), n \in {FileNode(OldContent), DirNode} }

\* the entries zip.NewReader finds: those of the archive whose image is buf.
\* suffixString decodes the constant first; epilogString holds the bytes
OpenArchive(v) ==
    LET zd == IF v = "suffix" THEN DecodeString(RawString(lit))
              ELSE [ok |-> TRUE, bytes |-> buf]
    IN  IF ~zd.ok THEN [err |-> "corrupt", File |-> <<>>]
        ELSE IF zd.bytes # buf THEN [err |-> "format", File |-> <<>>]
        ELSE [err |-> "nil", File |-> entries]

\* Unzip(path) / Unzip(path, replace) up to its loop; the caller calls it
\* again on the same target only after a call that returned nil
Unzip ==
    /\ pc = "done"
    /\ ~data
    /\ upc \in {"idle", "ok"}
    /\ Len(results) < MaxRuns
    /\ IF results = <<>>
       THEN /\ variant' \in {"suffix", "epilog"}
            /\ replace' \in (IF variant' = "suffix" THEN {TRUE} ELSE BOOLEAN)
            /\ tfs' \in PreTargets
       ELSE UNCHANGED <<variant, replace, tfs>>
    /\ tfs0' = tfs'
    /\ written' = {}
    /\ xerr' = "nil"
    /\ ui' = 1
    /\ LET r == OpenArchive(variant')
       IN  IF r.err # "nil"
           THEN upc' = "err" /\ results' = Append(results, r.err)
           ELSE IF r.File = <<>>
           THEN upc' = "ok" /\ results' = Append(results, "nil")
           ELSE upc' = "loop" /\ UNCHANGED results
    /\ UNCHANGED <<encVars, mainVars>>

\* UnzipLoop going on to the next entry after an error
UnzipLoop_continue(o) ==
    /\ ui' = ui + 1
    /\ IF ui = Len(entries)
       THEN upc' = "ok" /\ results' = Append(results, "nil")
       ELSE upc' = "loop" /\ UNCHANGED results

\* for _, f := range r.File { if err := extractFile(...); err != nil { return err } }
\* after the call for entry ui had outcome o
UnzipLoop(o) ==
    IF o.err # "nil"
    THEN /\ upc' = "err"
         /\ results' = Append(results, o.err)
         /\ UNCHANGED ui
    ELSE /\ ui' = ui + 1
         /\ IF ui = Len(entries)
            THEN upc' = "ok" /\ results' = Append(results, "nil")
            ELSE upc' = "loop" /\ UNCHANGED results

\* one iteration of the loop of Unzip
UnzipEntry ==
    /\ upc = "loop"
    /\ \E o \in (IF variant = "suffix" THEN extractFile(tfs, entries[ui])
                 ELSE extractFileReplace(tfs, entries[ui], replace)) :
          /\ tfs' = o.fs
          /\ written' = IF o.wrote THEN written \cup {ui} ELSE written
          /\ xerr' = o.err
          /\ UnzipLoop(o)
    /\ UNCHANGED <<variant, replace, tfs0>>
    /\ UNCHANGED <<encVars, mainVars>>

(***************************************************************************)
(* Specification of main and the emitted Unzip                             *)
(***************************************************************************)
EncOff ==
    /\ epc = "off"
    /\ encIn = <<>>
    /\ lit = <<>>
    /\ decOut = [ok |-> TRUE, bytes |-> <<>>]

UnzipIdle ==
    /\ upc = "idle"
    /\ variant = "suffix"
    /\ replace = TRUE
    /\ tfs = EmptyFS
    /\ tfs0 = EmptyFS
    /\ ui = 1
    /\ written = {}
    /\ xerr = "nil"
    /\ results = <<>>

Init ==
    /\ EncOff
    /\ UnzipIdle
    /\ pc = "start"
    /\ path \in Roots
    /\ srcfs \in {PlaceAt(path, t) : t \in {u \in Trees : path = << "." >> => u[<<>>].kind = "dir"}}
    /\ data \in BOOLEAN
    /\ pkg \in Pkgs
    /\ stack = <<>>
    /\ visited = <<>>
    /\ entries = <<>>
    /\ buf = <<>>
    /\ out = NoOutput
    /\ size = 0
    /\ printed = NoErr
    /\ exitCode = -1
    /\ failed = NoErr

Next ==
    \/ addFiles
    \/ addDir
    \/ addFile
    \/ main_Close
    \/ main_Create
    \/ main_WriteHeader
    \/ main_WriteLiteral
    \/ main_WriteTerminator
    \/ main_WriteFooter
    \/ main_Finish
    \/ Unzip
    \/ UnzipEntry

Spec == Init /\ [][Next]_vars

(***************************************************************************)
(* Specification of encode and its decoder                                 *)
(***************************************************************************)
MainOff ==
    /\ pc = "off"
    /\ path = << "." >>
    /\ srcfs = EmptyFS
    /\ data = FALSE
    /\ pkg = "main"
    /\ stack = <<>>
    /\ visited = <<>>
    /\ entries = <<>>
    /\ buf = <<>>
    /\ out = NoOutput
    /\ size = 0
    /\ printed = NoErr
    /\ exitCode = -1
    /\ failed = NoErr

InitEnc ==
    /\ MainOff
    /\ UnzipIdle
    /\ epc = "in"
    /\ encIn \in EncInputs
    /\ lit = <<>>
    /\ decOut = [ok |-> TRUE, bytes |-> <<>>]

\* lit := encode(data)
Encode ==
    /\ epc = "in"
    /\ lit' = encode(encIn)
    /\ epc' = "encoded"
    /\ UNCHANGED <<encIn, decOut, mainVars, unzVars>>

\* data, err := base64.StdEncoding.DecodeString(zipdata)
Decode ==
    /\ epc = "encoded"
    /\ decOut' = DecodeString(RawString(lit))
    /\ epc' = "decoded"
    /\ UNCHANGED <<encIn, lit, mainVars, unzVars>>

NextEnc == Encode \/ Decode

SpecEnc == InitEnc /\ [][NextEnc]_vars


(***************************************************************************)
(* Properties of encode (SpecEnc)                                          *)
(***************************************************************************)
Max(S) == CHOOSE x \in S : \A y \in S : y <= x

\* the positions of the line breaks of s
Breaks(s) == {i \in 1..Len(s) : s[i] = "\n"}

\* the lengths of the lines of s that end in a line break
BrokenLineLens(s) ==
    {i - Max({0} \cup {j \in Breaks(s) : j < i}) - 1 : i \in Breaks(s)}

\* C3: for every byte slice, decoding the constant (the literal without its
\* two backquotes) with the standard decoder, which skips line breaks, gives
\* the byte slice back, without error
C3_EncodingInverse ==
    epc = "decoded" => decOut = [ok |-> TRUE, bytes |-> encIn]

\* a non-empty slice whose literal was wrapped has been decoded
C3_Witness ==
    /\ epc = "decoded"
    /\ Len(encIn) > 0
    /\ Breaks(lit) # {}
    /\ decOut.ok

\* C9 as stated: every line of the literal but the last holds exactly 60
\* base64 characters
C9_Lines60 ==
    epc # "in" => \A n \in BrokenLineLens(RawString(lit)) : n = LineWidth

\* C9 amended: a line break is written whenever the length of the output so
\* far, the opening backquote and earlier line breaks included, is a multiple
\* of 60; every line of the literal but the last holds exactly 59 base64
\* characters
C9_Lines59 ==
    epc # "in" =>
        /\ \A n \in BrokenLineLens(RawString(lit)) : n = LineWidth - 1
        /\ \A i \in Breaks(lit) : (i - 1) % LineWidth = 0

\* a literal of three lines
C9_Witness ==
    /\ epc = "encoded"
    /\ Cardinality(Breaks(lit)) >= 2


(***************************************************************************)
(* Properties of main (Spec)                                               *)
(***************************************************************************)
Last(q) == q[Len(q)]

\* the files and the subdirectories of the tree rooted at path
TreeFiles   == {p \in DOMAIN srcfs : srcfs[p].kind = "file"}
TreeSubdirs == {p \in DOMAIN srcfs : srcfs[p].kind = "dir" /\ p # path}
RootIsDir   == path \in DOMAIN srcfs /\ srcfs[path].kind = "dir"

\* C6: a failing stat, open, directory read or file read on any path of the
\* walk reaches main unchanged, ends the process with status 1 with no later
\* path visited, and the output file is neither created nor written
C6_TraversalAbort ==
    failed.op \in {"stat", "open", "readdir", "read"} =>
        /\ pc = "exit"
        /\ exitCode = 1
        /\ printed = failed
        /\ out = NoOutput
        /\ IF failed.op = "stat" THEN visited = <<>>
           ELSE visited # <<>> /\ Last(visited) = failed.path

\* a file below the root could not be read after other paths were visited
C6_Witness ==
    /\ failed.op = "read"
    /\ Len(visited) >= 3
    /\ Len(failed.path) > Len(path) + 1
    /\ pc = "exit"

\* C7: no two entries of the archive have the same name
C7_UniqueNames ==
    \A i, j \in 1..Len(entries) : i # j => entries[i].name # entries[j].name

\* a finished archive holding files of the same base name from different
\* directories
C7_Witness ==
    /\ pc = "done"
    /\ \E i, j \in 1..Len(entries) :
          /\ i # j
          /\ Base(entries[i].name) = Base(entries[j].name)

\* C8: on success the size main prints is the number of bytes written to the
\* output file: formatted header + literal + "\n\n" + footer, the footer
\* written iff -d is off and the short header used iff -d is on
C8_ByteCount ==
    pc = "done" =>
        /\ printed.size = out.len
        /\ out.len = (IF data THEN ShortPrefixLen ELSE PrefixLen) - VerbLen + Len(pkg)
                     + Len(lit) + 2 + (IF data THEN 0 ELSE SuffixLen)
        /\ lit = encode(buf)
        /\ out.segs = IF data THEN << "shortPrefix", "literal", "terminator" >>
                      ELSE << "prefix", "literal", "terminator", "footer" >>

\* a finished run with the footer and a wrapped literal
C8_Witness ==
    /\ pc = "done"
    /\ ~data
    /\ Breaks(lit) # {}
    /\ printed.size > SuffixLen

\* C10 as stated: once os.Create succeeded the file is closed before the
\* process ends, on every path
C10_ClosedOnExit ==
    (exitCode # -1 /\ out.created) => (~out.open /\ out.closeCalls >= 1)

\* C2 as stated: every subdirectory of the tree has exactly one directory
\* entry (so a.txt and an empty sub/ give two entries) and exists in the
\* target after extraction
C2_DirectoryEntries ==
    /\ (pc = "done" /\ RootIsDir) =>
          /\ \A d \in TreeSubdirs :
                Cardinality({i \in 1..Len(entries) :
                    entries[i].isDir /\ Clean(entries[i].name) = d}) = 1
          /\ Len(entries) = Cardinality(TreeFiles) + Cardinality(TreeSubdirs)
    /\ (upc = "ok" /\ RootIsDir) =>
          \A d \in TreeSubdirs :
              /\ Join(Target, Rel(path, d)) \in DOMAIN tfs
              /\ tfs[Join(Target, Rel(path, d))].kind = "dir"

(***************************************************************************)
(* Properties of the emitted Unzip (Spec)                                  *)
(***************************************************************************)
\* C1 as stated: after Unzip into the target, every file of the tree whose
\* path relative to the root is p is the file p of the target, with the same
\* content
C1_RoundTrip ==
    (upc = "ok" /\ variant = "suffix" /\ RootIsDir) =>
        \A p \in TreeFiles :
            /\ Join(Target, Rel(path, p)) \in DOMAIN tfs
            /\ tfs[Join(Target, Rel(path, p))] = srcfs[p]

\* one call of extractFile(f, path, replace) on a file entry
C4_Step ==
    (upc = "loop" /\ variant = "epilog" /\ ~entries[ui].isDir) =>
        LET f       == entries[ui]
            d       == Dest(f)
            existed == d \in DOMAIN tfs
        IN  /\ (~replace /\ existed) =>
                  (upc' # "err" /\ xerr' = "nil" /\ tfs' = tfs)
            /\ xerr' = "nil" =>
                  ( (ui \in written' /\ tfs'[d] = FileNode(f.content))
                    <=> (replace \/ ~existed) )

\* a second call of Unzip that returned nil left every file as the first left it
C4_Rerun ==
    (variant = "epilog" /\ results = << "nil", "nil" >>) =>
        \A i \in 1..Len(entries) : tfs[Dest(entries[i])] = tfs0[Dest(entries[i])]

\* C4: extractFile writes the entry's content to the destination iff replace
\* is true or the destination did not exist; with replace false an existing
\* destination is left as it is and nil is returned; so a second Unzip leaves
\* the files as the first left them
C4_OverwritePolicy == [][C4_Step]_vars /\ []C4_Rerun

\* two calls with replace false on a target that held one destination
\* already: that file is kept, another was extracted
C4_Witness ==
    /\ variant = "epilog"
    /\ ~replace
    /\ results = << "nil", "nil" >>
    /\ \E i, j \in 1..Len(entries) :
          /\ tfs[Dest(entries[i])] = FileNode(OldContent)
          /\ tfs[Dest(entries[j])] = FileNode(entries[j].content)

\* C5: when extractFile fails for entry ui, Unzip returns that error; the
\* entries written before it hold their content, the entries after it are
\* as they were before the call
C5_AbortOnFirstError ==
    xerr # "nil" =>
        /\ upc = "err"
        /\ Last(results) = xerr
        /\ \A j \in written :
              j < ui /\ tfs[Dest(entries[j])] = FileNode(entries[j].content)
        /\ \A j \in (ui + 1)..Len(entries) :
              LET d == Dest(entries[j])
              IN  /\ (d \in DOMAIN tfs) = (d \in DOMAIN tfs0)
                  /\ d \in DOMAIN tfs => tfs[d] = tfs0[d]

\* the second of three entries failed after the first was written
C5_Witness ==
    /\ upc = "err"
    /\ ui = 2
    /\ 1 \in written
    /\ Len(entries) >= 3

====
